---- MODULE Spec2Model ----
(***************************************************************************)
(* The SAT pipeline of the sudoku solver: the grid (src/model/grid.py),    *)
(* the proposition space, the CNF compiler and the decoder (SudokuCNF in   *)
(* src/solvers/sat_solver.py), the timed solve of                          *)
(* SatSudokuSolver.run_algorithm, and the exit status of main (main.py).   *)
(***************************************************************************)
EXTENDS Integers, Sequences, FiniteSets, TLC

(***************************************************************************)
(* Bounds of the model.                                                    *)
(***************************************************************************)
\* Most cells blanked in an input puzzle whose clues are consistent.
MaxEmpty == 4
\* Most cells blanked in an input puzzle that also has one overwritten clue.
MaxEmptyCorrupt == 2

\* The time limits: none at all, and one unit of waiting.
TimeLimits == {0, 1}

\* Side lengths of the puzzles: 1x1 (block size 1) and 4x4 (block size 2).
GridSizes == {1, 4}

(***************************************************************************)
(* SudokuGrid.  A grid is the n x n array, a sequence of n rows of n       *)
(* values; rows and columns are addressed from 0 as in the source.         *)
(***************************************************************************)
size(g) == Len(g)

Idx(n) == 0 .. (n - 1)

\* SudokuGrid.__getitem__
Get(g, r, c) == g[r + 1][c + 1]

\* SudokuGrid.__setitem__ on the array it is given
Set(g, r, c, v) == [g EXCEPT ![r + 1][c + 1] = v]

\* SudokuGrid.block_size: the integer square root of the side length.
block_size(g) == CHOOSE k \in 1 .. size(g) : k * k = size(g)

\* SudokuGrid.block_index: blocks are numbered left to right, top to bottom.
block_index(g, r, c) ==
    (r \div block_size(g)) * block_size(g) + (c \div block_size(g))

\* np.ndenumerate: the cells in row-major order.
enumerate(g) ==
    [i \in 1 .. (size(g) * size(g)) |->
        <<(i - 1) \div size(g), (i - 1) % size(g)>>]

(***************************************************************************)
(* Small helpers for Python's built-ins.                                   *)
(***************************************************************************)
Min(S) == CHOOSE x \in S : \A y \in S : x <= y

Max(S) == CHOOSE x \in S : \A y \in S : y <= x

Abs(x) == IF x < 0 THEN 0 - x ELSE x

Range(s) == {s[i] : i \in DOMAIN s}

\* sorted(S) of a set of integers
RECURSIVE sorted(_)
sorted(S) ==
    IF S = {} THEN <<>> ELSE <<Min(S)>> \o sorted(S \ {Min(S)})

\* The distinct elements of a sequence, in the order of their first occurrence.
RECURSIVE Distinct(_)
Distinct(s) ==
    IF s = <<>> THEN <<>>
    ELSE <<Head(s)>> \o Distinct(SelectSeq(Tail(s), LAMBDA x : x # Head(s)))

(***************************************************************************)
(* SudokuCNF._possible_propositions.                                       *)
(***************************************************************************)
Coordinates(r, c, b) == [row |-> r, col |-> c, block |-> b]

Proposition(co, v, i) == [coords |-> co, val |-> v, id |-> i]

\* row_used[r], col_used[c], block_used[b] after the first scan of the grid
row_used(g, r) == {Get(g, r, c) : c \in Idx(size(g))} \ {0}

col_used(g, c) == {Get(g, r, c) : r \in Idx(size(g))} \ {0}

block_used(g, b) ==
    {Get(g, rc[1], rc[2]) :
        rc \in {x \in Idx(size(g)) \X Idx(size(g)) :
                    block_index(g, x[1], x[2]) = b}} \ {0}

\* allowed, with the values used in the block forgotten
allowed_NoBlock(g, r, c) ==
    ((1 .. size(g)) \ row_used(g, r)) \ col_used(g, c)

\* all_vals - row_used[r] - col_used[c] - block_used[b]
allowed(g, r, c) ==
    (((1 .. size(g)) \ row_used(g, r)) \ col_used(g, c))
        \ block_used(g, block_index(g, r, c))

\* next_id, advanced by two
NextId_Skip(next_id) == next_id + 2

\* next_id += 1
NextId(next_id) == next_id + 1

\* propositions[next_id] = Proposition(...): a store into the dict, which
\* replaces the value of a key already present.
Store(props, key, p) == (key :> p) @@ props

\* for v in sorted(allowed): one proposition per candidate value
RECURSIVE AddValues(_, _, _, _, _)
AddValues(st, r, c, b, vals) ==
    IF vals = <<>> THEN st
    ELSE AddValues(
            [props |-> Store(st.props, st.next_id,
                             Proposition(Coordinates(r, c, b), Head(vals),
                                         st.next_id)),
             next_id |-> NextId(st.next_id)],
            r, c, b, Tail(vals))

\* for (r, c), val in puzzle.enumerate(): pre-filled cells are skipped
RECURSIVE ScanCells(_, _, _)
ScanCells(st, g, cells) ==
    IF cells = <<>> THEN st
    ELSE LET r == Head(cells)[1]
             c == Head(cells)[2]
         IN  IF Get(g, r, c) # 0
             THEN ScanCells(st, g, Tail(cells))
             ELSE ScanCells(
                     AddValues(st, r, c, block_index(g, r, c),
                               sorted(allowed(g, r, c))),
                     g, Tail(cells))

_possible_propositions(g) ==
    ScanCells([props |-> <<>>, next_id |-> 1], g, enumerate(g)).props

\* dict.values(): the propositions in insertion order, which is the order of
\* their keys since the keys are handed out in increasing order.
values(props) ==
    LET keys == sorted(DOMAIN props)
    IN  [i \in 1 .. Len(keys) |-> props[keys[i]]]

(***************************************************************************)
(* The constraint compiler: the clause primitives and the four families.   *)
(* A formula is a sequence of clauses, a clause a sequence of literals.    *)
(***************************************************************************)
\* group_by(items, key).values(), keys[i] being the key of items[i]: the
\* groups in the order their keys first occur, each in the order of the items.
group_by(items, keys) ==
    LET ks == Distinct(keys)
    IN  [k \in 1 .. Len(ks) |->
            LET idx == sorted({i \in 1 .. Len(items) : keys[i] = ks[k]})
            IN  [j \in 1 .. Len(idx) |-> items[idx[j]]]]

_at_least_one(cnf, ps) ==
    LET clause == [i \in 1 .. Len(ps) |-> ps[i].id]
    IN  IF clause # <<>> THEN Append(cnf, clause) ELSE cnf

\* itertools.combinations(props, 2): the pairs in lexicographic order
RECURSIVE Combinations2(_)
Combinations2(ps) ==
    IF Len(ps) <= 1 THEN <<>>
    ELSE [j \in 1 .. (Len(ps) - 1) |-> <<ps[1], ps[j + 1]>>]
            \o Combinations2(Tail(ps))

\* _at_most_one, emitting no clause
_at_most_one_Nothing(cnf, ps) == cnf

_at_most_one(cnf, ps) ==
    LET pairs == Combinations2(ps)
    IN  cnf \o [i \in 1 .. Len(pairs) |->
                    <<0 - pairs[i][1].id, 0 - pairs[i][2].id>>]

_exactly_one(cnf, ps) ==
    IF ps = <<>> THEN cnf
    ELSE _at_most_one(_at_least_one(cnf, ps), ps)

RECURSIVE ExactlyOneEach(_, _)
ExactlyOneEach(cnf, groups) ==
    IF groups = <<>> THEN cnf
    ELSE ExactlyOneEach(_exactly_one(cnf, Head(groups)), Tail(groups))

RECURSIVE AtMostOneEach(_, _)
AtMostOneEach(cnf, groups) ==
    IF groups = <<>> THEN cnf
    ELSE AtMostOneEach(_at_most_one(cnf, Head(groups)), Tail(groups))

_every_cell_has_a_single_value(cnf, props) ==
    LET ps == values(props)
    IN  ExactlyOneEach(cnf,
            group_by(ps, [i \in 1 .. Len(ps) |-> ps[i].coords]))

_every_row_contains_unique_values(cnf, props) ==
    LET ps == values(props)
    IN  AtMostOneEach(cnf,
            group_by(ps, [i \in 1 .. Len(ps) |->
                            <<ps[i].coords.row, ps[i].val>>]))

_every_col_contains_unique_values(cnf, props) ==
    LET ps == values(props)
    IN  AtMostOneEach(cnf,
            group_by(ps, [i \in 1 .. Len(ps) |->
                            <<ps[i].coords.col, ps[i].val>>]))

_every_block_contains_unique_values(cnf, props) ==
    LET ps == values(props)
    IN  AtMostOneEach(cnf,
            group_by(ps, [i \in 1 .. Len(ps) |->
                            <<ps[i].coords.block, ps[i].val>>]))

\* SudokuCNF.__post_init__: the four families, appended to the empty CNF()
__post_init__(props) ==
    _every_block_contains_unique_values(
        _every_col_contains_unique_values(
            _every_row_contains_unique_values(
                _every_cell_has_a_single_value(<<>>, props), props), props),
        props)

\* SudokuCNF.encode: the puzzle is kept by reference
encode(h, ref) ==
    LET props == _possible_propositions(h[ref])
    IN  [cnf |-> __post_init__(props), propositions |-> props, puzzle |-> ref]

(***************************************************************************)
(* The satisfiability engine behind Solver: a satisfying assignment is a   *)
(* set of true variables among 1..nof_vars.                                *)
(***************************************************************************)
nof_vars(cnf) ==
    LET lits == UNION {Range(cnf[i]) : i \in DOMAIN cnf}
    IN  IF lits = {} THEN 0 ELSE Max({Abs(l) : l \in lits})

Satisfies(m, cnf) ==
    \A i \in DOMAIN cnf :
        \E j \in DOMAIN cnf[i] :
            IF cnf[i][j] > 0 THEN cnf[i][j] \in m ELSE (0 - cnf[i][j]) \notin m

SatModels(cnf) == {m \in SUBSET (1 .. nof_vars(cnf)) : Satisfies(m, cnf)}

\* solver.get_model(): one signed literal per variable
get_model(cnf, m) == [i \in 1 .. nof_vars(cnf) |-> IF i \in m THEN i ELSE 0 - i]

(***************************************************************************)
(* SudokuGrid.copy and SudokuCNF.decode.  Grids are objects on a heap, a   *)
(* sequence of arrays addressed by reference.                              *)
(***************************************************************************)
\* copy, handing back the grid itself
copy_Alias(h, ref) == [heap |-> h, ref |-> ref]

copy(h, ref) == [heap |-> Append(h, h[ref]), ref |-> Len(h) + 1]

\* for pid in results: positive ids present in the map are written
RECURSIVE Fill(_, _, _)
Fill(g, props, results) ==
    IF results = <<>> THEN g
    ELSE LET pid == Head(results)
         IN  IF pid > 0 /\ pid \in DOMAIN props
             THEN Fill(Set(g, props[pid].coords.row, props[pid].coords.col,
                           props[pid].val),
                       props, Tail(results))
             ELSE Fill(g, props, Tail(results))

decode(h, sc, results) ==
    LET cp == copy(h, sc.puzzle)
    IN  [heap |-> [cp.heap EXCEPT ![cp.ref] =
                        Fill(cp.heap[cp.ref], sc.propositions, results)],
         ref |-> cp.ref]

(***************************************************************************)
(* The input puzzles.  BaseGrid(n) is a solved grid of side n; an input    *)
(* is BaseGrid(n) with some cells blanked and, possibly, one cell          *)
(* overwritten by another value, which can make the clues contradictory.   *)
(***************************************************************************)
BlockSizeOf(n) == CHOOSE k \in 1 .. n : k * k = n

BaseGrid(n) ==
    [i \in 1 .. n |-> [j \in 1 .. n |->
        ((((i - 1) % BlockSizeOf(n)) * BlockSizeOf(n)
            + ((i - 1) \div BlockSizeOf(n)) + (j - 1)) % n) + 1]]

Cells(n) == Idx(n) \X Idx(n)

Subsets(S, k) == {E \in SUBSET S : Cardinality(E) <= k}

Blanked(g, E) ==
    [i \in 1 .. Len(g) |-> [j \in 1 .. Len(g) |->
        IF <<i - 1, j - 1>> \in E THEN 0 ELSE g[i][j]]]

\* The clue that may be overwritten: the last cell of the first block's
\* first column.
CorruptCell(n) == <<BlockSizeOf(n) - 1, 0>>

Inputs ==
    UNION {
        {Blanked(BaseGrid(n), E) : E \in Subsets(Cells(n), MaxEmpty)}
        \cup
        {Set(Blanked(BaseGrid(n), E), CorruptCell(n)[1], CorruptCell(n)[2], v) :
            E \in Subsets(Cells(n), MaxEmptyCorrupt), v \in 1 .. n}
        : n \in GridSizes}

NoCnf == [cnf |-> <<>>, propositions |-> <<>>, puzzle |-> 0]

\* Result lists a caller may hand to decode: none, a negative id, zero, the
\* first and the last id of the map, and an id the map does not hold.
ResultLists(props) ==
    {<<>>} \cup {<<i>> : i \in {-1, 0, 1, Cardinality(DOMAIN props),
                                Cardinality(DOMAIN props) + 1}}

(***************************************************************************)
(* The state of one run of main with the SAT solver.                       *)
(***************************************************************************)
VARIABLES
    text,           \* the puzzle file: [ok |-> well-formed?, grid |-> its grid]
    time_limit,     \* args.time_limit
    heap,           \* the grid objects; heap[1] is the caller's puzzle
    pc,             \* where the main thread is
    sudoku_cnf,     \* the SudokuCNF built by encode
    solver,         \* the engine instance: "none", "open" or "deleted"
    interrupted,    \* the engine's interrupt flag
    status,         \* what solve_limited returned: "unset", "True", "False", "None"
    model,          \* solver.get_model()
    timer,          \* timer_obj: "new", "waiting", "calling", "done", "cancelled"
    elapsed,        \* how long the timer thread has waited
    outcome,        \* how solve ended for main: "pending", "Grid", "None",
                    \* "TimeoutError", "Exception", or "Malformed" (no solve)
    solution,       \* the reference returned by run_algorithm or decode, 0 if none
    exit_code,      \* the status of sys.exit, -1 while running
    timer_at_return,\* the timer's state when solve_limited returned
    late            \* an interrupt reached the engine after solve_limited returned

vars == <<text, time_limit, heap, pc, sudoku_cnf, solver, interrupted, status,
          model, timer, elapsed, outcome, solution, exit_code,
          timer_at_return, late>>

Init ==
    /\ text \in {[ok |-> TRUE, grid |-> g] : g \in Inputs}
                    \cup {[ok |-> FALSE, grid |-> <<>>]}
    /\ time_limit \in TimeLimits
    /\ heap = <<>>
    /\ pc = "main"
    /\ sudoku_cnf = NoCnf
    /\ solver = "none"
    /\ interrupted = FALSE
    /\ status = "unset"
    /\ model = <<>>
    /\ timer = "new"
    /\ elapsed = 0
    /\ outcome = "pending"
    /\ solution = 0
    /\ exit_code = -1
    /\ timer_at_return = "new"
    /\ late = FALSE

\* main: the file is read and parsed into the puzzle.
ParseOk ==
    /\ pc = "main"
    /\ text.ok
    /\ heap' = <<text.grid>>
    /\ pc' = "encode"
    /\ UNCHANGED <<text, time_limit, sudoku_cnf, solver, interrupted, status,
                   model, timer, elapsed, outcome, solution, exit_code,
                   timer_at_return, late>>

\* ExitStatus, with a timeout reported like any other failure
ExitStatus_TimeoutAsFailure(o) == IF o = "Grid" THEN 0 ELSE 1

\* main: the status handed to sys.exit for each way the run can end.
ExitStatus(o) ==
    CASE o = "Grid" -> 0
      [] o = "None" -> 1
      [] o = "TimeoutError" -> 2
      [] o = "Exception" -> 1
      [] o = "Malformed" -> 1

\* main: a malformed puzzle ends the process before any solve.
ParseFail ==
    /\ pc = "main"
    /\ ~text.ok
    /\ outcome' = "Malformed"
    /\ exit_code' = ExitStatus("Malformed")
    /\ pc' = "exited"
    /\ UNCHANGED <<text, time_limit, heap, sudoku_cnf, solver, interrupted,
                   status, model, timer, elapsed, solution, timer_at_return,
                   late>>

\* run_algorithm: sudoku_cnf = SudokuCNF.encode(self._puzzle)
Encode ==
    /\ pc = "encode"
    /\ sudoku_cnf' = encode(heap, 1)
    /\ pc' = "start"
    /\ UNCHANGED <<text, time_limit, heap, solver, interrupted, status, model,
                   timer, elapsed, outcome, solution, exit_code,
                   timer_at_return, late>>

\* A caller that encoded the puzzle itself calls decode with a result list of
\* its own, any number of times, dropping the grid the call before returned.
DecodeCall ==
    /\ pc \in {"start", "decoded"}
    /\ \E results \in ResultLists(sudoku_cnf.propositions) :
          LET live == IF solution > 1
                      THEN SubSeq(heap, 1, solution - 1) ELSE heap
              d == decode(live, sudoku_cnf, results)
          IN  heap' = d.heap /\ solution' = d.ref
    /\ pc' = "decoded"
    /\ UNCHANGED <<text, time_limit, sudoku_cnf, solver, interrupted, status,
                   model, timer, elapsed, outcome, exit_code, timer_at_return,
                   late>>

\* with Solver(...) as solver: timer_obj = Timer(...); timer_obj.start()
StartTimer ==
    /\ pc = "start"
    /\ solver' = "open"
    /\ timer' = "waiting"
    /\ pc' = "solve"
    /\ UNCHANGED <<text, time_limit, heap, sudoku_cnf, interrupted, status,
                   model, elapsed, outcome, solution, exit_code,
                   timer_at_return, late>>

\* solve_limited concludes: a model if the formula has one, False otherwise.
EngineConclude ==
    /\ pc = "solve"
    /\ LET ms == SatModels(sudoku_cnf.cnf)
       IN  IF ms = {}
           THEN status' = "False" /\ model' = model
           ELSE \E m \in ms :
                    status' = "True" /\ model' = get_model(sudoku_cnf.cnf, m)
    /\ timer_at_return' = timer
    /\ pc' = "cancel"
    /\ UNCHANGED <<text, time_limit, heap, sudoku_cnf, solver, interrupted,
                   timer, elapsed, outcome, solution, exit_code, late>>

\* solve_limited sees the interrupt flag at a decision point and gives up.
EngineAbort ==
    /\ pc = "solve"
    /\ interrupted
    /\ status' = "None"
    /\ timer_at_return' = timer
    /\ pc' = "cancel"
    /\ UNCHANGED <<text, time_limit, heap, sudoku_cnf, solver, interrupted,
                   model, timer, elapsed, outcome, solution, exit_code, late>>

\* solve_limited raises: the exception leaves the with block, which deletes
\* the solver, and run_algorithm; timer_obj.cancel() is not reached.
EngineFail ==
    /\ pc = "solve"
    /\ solver' = "deleted"
    /\ outcome' = "Exception"
    /\ timer_at_return' = timer
    /\ pc' = "result"
    /\ UNCHANGED <<text, time_limit, heap, sudoku_cnf, interrupted, status,
                   model, timer, elapsed, solution, exit_code, late>>

\* Timer.cancel(): sets the finished event, which stops a timer still waiting.
cancel(t) == IF t = "waiting" THEN "cancelled" ELSE t

\* timer_obj.cancel()
CancelTimer ==
    /\ pc = "cancel"
    /\ timer' = cancel(timer)
    /\ pc' = "branch"
    /\ UNCHANGED <<text, time_limit, heap, sudoku_cnf, solver, interrupted,
                   status, model, elapsed, outcome, solution, exit_code,
                   timer_at_return, late>>

\* Surface, with an interrupted solve reported as no solution
Surface_Conflated(st) == IF st = "True" THEN "Grid" ELSE "None"

\* How run_algorithm surfaces the status of solve_limited.
Surface(st) ==
    CASE st = "None" -> "TimeoutError"
      [] st = "False" -> "None"
      [] st = "True" -> "Grid"

\* if status is None: raise TimeoutError
RaiseTimeout ==
    /\ pc = "branch"
    /\ Surface(status) = "TimeoutError"
    /\ solver' = "deleted"
    /\ outcome' = "TimeoutError"
    /\ pc' = "result"
    /\ UNCHANGED <<text, time_limit, heap, sudoku_cnf, interrupted, status,
                   model, timer, elapsed, solution, exit_code,
                   timer_at_return, late>>

\* if status is False: return None
ReturnNone ==
    /\ pc = "branch"
    /\ Surface(status) = "None"
    /\ solver' = "deleted"
    /\ outcome' = "None"
    /\ pc' = "result"
    /\ UNCHANGED <<text, time_limit, heap, sudoku_cnf, interrupted, status,
                   model, timer, elapsed, solution, exit_code,
                   timer_at_return, late>>

\* status True: model = solver.get_model(); return sudoku_cnf.decode(model)
ReturnDecoded ==
    /\ pc = "branch"
    /\ Surface(status) = "Grid"
    /\ solver' = "deleted"
    /\ LET d == decode(heap, sudoku_cnf, model)
       IN  heap' = d.heap /\ solution' = d.ref
    /\ outcome' = "Grid"
    /\ pc' = "result"
    /\ UNCHANGED <<text, time_limit, sudoku_cnf, interrupted, status, model,
                   timer, elapsed, exit_code, timer_at_return, late>>

\* main: the result or the exception of solve becomes the exit status.
MainExit ==
    /\ pc = "result"
    /\ exit_code' = ExitStatus(outcome)
    /\ pc' = "exited"
    /\ UNCHANGED <<text, time_limit, heap, sudoku_cnf, solver, interrupted,
                   status, model, timer, elapsed, outcome, solution,
                   timer_at_return, late>>

\* The timer thread waits in finished.wait(interval).
Tick ==
    /\ timer = "waiting"
    /\ elapsed < time_limit
    /\ elapsed' = elapsed + 1
    /\ UNCHANGED <<text, time_limit, heap, pc, sudoku_cnf, solver, interrupted,
                   status, model, timer, outcome, solution, exit_code,
                   timer_at_return, late>>

\* The wait times out with the finished event not set: the thread goes on to
\* call the function.
TimerExpire ==
    /\ timer = "waiting"
    /\ elapsed >= time_limit
    /\ timer' = "calling"
    /\ UNCHANGED <<text, time_limit, heap, pc, sudoku_cnf, solver, interrupted,
                   status, model, elapsed, outcome, solution, exit_code,
                   timer_at_return, late>>

\* TimerInterrupt, with the call to solver.interrupt() lost
TimerInterrupt_Lost ==
    /\ timer = "calling"
    /\ timer' = "done"
    /\ late' = (late \/ pc # "solve")
    /\ UNCHANGED <<text, time_limit, heap, pc, sudoku_cnf, solver, interrupted,
                   status, model, elapsed, outcome, solution, exit_code,
                   timer_at_return>>

\* The timer thread calls solver.interrupt(), which reaches the engine while
\* the solver is open.
TimerInterrupt ==
    /\ timer = "calling"
    /\ timer' = "done"
    /\ interrupted' = (interrupted \/ solver = "open")
    /\ late' = (late \/ pc # "solve")
    /\ UNCHANGED <<text, time_limit, heap, pc, sudoku_cnf, solver, status,
                   model, elapsed, outcome, solution, exit_code,
                   timer_at_return>>

Next ==
    \/ ParseOk
    \/ ParseFail
    \/ Encode
    \/ DecodeCall
    \/ StartTimer
    \/ EngineConclude
    \/ EngineAbort
    \/ EngineFail
    \/ CancelTimer
    \/ RaiseTimeout
    \/ ReturnNone
    \/ ReturnDecoded
    \/ MainExit
    \/ Tick
    \/ TimerExpire
    \/ TimerInterrupt

Spec == Init /\ [][Next]_vars

\* The timer thread keeps running: it waits, times out and calls.
TimerFairness ==
    /\ WF_vars(Tick)
    /\ WF_vars(TimerExpire)
    /\ WF_vars(TimerInterrupt)

\* The engine stops once interrupted; it need not ever conclude on its own.
EngineFairness == WF_vars(EngineAbort)

\* The main thread keeps running once solve_limited has returned.
MainFairness ==
    /\ WF_vars(CancelTimer)
    /\ WF_vars(RaiseTimeout)
    /\ WF_vars(ReturnNone)
    /\ WF_vars(ReturnDecoded)
    /\ WF_vars(MainExit)

FairSpec == Spec /\ TimerFairness /\ EngineFairness /\ MainFairness

(***************************************************************************)
(* What the properties are stated with: sudoku's rules, said directly of   *)
(* a grid.                                                                 *)
(***************************************************************************)
\* encode has just returned
Encoded == pc = "start"

\* run_algorithm has returned or raised
Ended == pc \in {"result", "exited"}

\* Block index of cell (r, c) in a grid of side n: (r / k) * k + (c / k).
BlockOf(n, r, c) ==
    (r \div BlockSizeOf(n)) * BlockSizeOf(n) + (c \div BlockSizeOf(n))

\* The groups of a grid of side n: its rows, its columns and its blocks.
Groups(n) ==
    {{<<i, c>> : c \in Idx(n)} : i \in Idx(n)}
        \cup {{<<r, i>> : r \in Idx(n)} : i \in Idx(n)}
        \cup {{<<(i \div BlockSizeOf(n)) * BlockSizeOf(n) + a,
                 (i % BlockSizeOf(n)) * BlockSizeOf(n) + b>> :
                    a \in Idx(BlockSizeOf(n)), b \in Idx(BlockSizeOf(n))} :
                i \in Idx(n)}

\* v occurs in no cell of the row, column or block of (r, c).
Legal(g, r, c, v) ==
    \A x \in Cells(Len(g)) :
        (\/ x[1] = r
         \/ x[2] = c
         \/ BlockOf(Len(g), x[1], x[2]) = BlockOf(Len(g), r, c))
            => Get(g, x[1], x[2]) # v

EmptyCells(g) == {x \in Cells(Len(g)) : Get(g, x[1], x[2]) = 0}

\* The (row, col, value) triples of the empty cells' candidate values.
Candidates(g) ==
    {<<y[1][1], y[1][2], y[2]>> :
        y \in {z \in EmptyCells(g) \X (1 .. Len(g)) :
                    Legal(g, z[1][1], z[1][2], z[2])}}

\* The (row, col, value) triple a proposition stands for.
Triple(p) == <<p.coords.row, p.coords.col, p.val>>

\* Every row, column and block holds each of 1..n exactly once.
ValidGrid(g) ==
    \A G \in Groups(Len(g)) : \A v \in 1 .. Len(g) :
        Cardinality({x \in G : Get(g, x[1], x[2]) = v}) = 1

\* No row, column or block holds a value twice among the pre-filled cells.
Consistent(g) ==
    \A G \in Groups(Len(g)) : \A v \in 1 .. Len(g) :
        Cardinality({x \in G : Get(g, x[1], x[2]) = v}) <= 1

\* Some row holds a value twice among the pre-filled cells.
RowDuplicate(g) ==
    \E a, b \in Cells(Len(g)) :
        a # b /\ a[1] = b[1] /\ Get(g, a[1], a[2]) # 0
              /\ Get(g, a[1], a[2]) = Get(g, b[1], b[2])

\* g2 keeps every pre-filled cell of g.
Agrees(g2, g) ==
    \A x \in Cells(Len(g)) :
        Get(g, x[1], x[2]) # 0 => Get(g2, x[1], x[2]) = Get(g, x[1], x[2])

\* The valid completions of g, found by filling its empty cells one by one
\* with the values still legal.
RECURSIVE Fillings(_, _)
Fillings(g, cells) ==
    IF cells = <<>> THEN {g}
    ELSE UNION {Fillings(Set(g, Head(cells)[1], Head(cells)[2], v), Tail(cells)) :
                    v \in {w \in 1 .. Len(g) :
                              Legal(g, Head(cells)[1], Head(cells)[2], w)}}

Completions(g) ==
    {f \in Fillings(g, SelectSeq(enumerate(g),
                                 LAMBDA x : Get(g, x[1], x[2]) = 0)) :
        ValidGrid(f)}

\* The grids the satisfying assignments ms of the encoded formula decode to.
DecodedModels(ms) ==
    {LET d == decode(heap, sudoku_cnf, get_model(sudoku_cnf.cnf, m))
     IN  d.heap[d.ref] : m \in ms}

\* The puzzle's clues are consistent and it has exactly one valid completion.
UniquePuzzle ==
    Consistent(text.grid) /\ Cardinality(Completions(text.grid)) = 1

(***************************************************************************)
(* The properties.                                                         *)
(***************************************************************************)
\* C1: a grid returned by run_algorithm has each value 1..n exactly once in
\* every row, column and block, and keeps every pre-filled cell of the input.
C1_Soundness ==
    (Ended /\ outcome = "Grid") =>
        /\ ValidGrid(heap[solution])
        /\ Agrees(heap[solution], text.grid)

\* C2: for a puzzle with the same value pre-filled twice in one row the
\* encoded formula has no satisfying assignment, and run_algorithm never
\* returns a grid.
C2_RowDuplicateUnsatisfiable ==
    /\ (Encoded /\ RowDuplicate(text.grid)) => SatModels(sudoku_cnf.cnf) = {}
    /\ (Ended /\ text.ok /\ RowDuplicate(text.grid)) => outcome # "Grid"

\* C3: an interrupted solve (status None) ends as TimeoutError and exit
\* status 2, never as "no solution"; a proven-unsatisfiable one (status
\* False) ends as None returned and exit status 1, never as a timeout.
C3_TimeoutDistinct ==
    /\ (Ended /\ status = "None") => outcome = "TimeoutError"
    /\ (Ended /\ status = "False") => outcome = "None"
    /\ (pc = "exited" /\ status = "None") => exit_code = 2
    /\ (pc = "exited" /\ status = "False") => exit_code = 1

\* A solve of a puzzle whose formula is unsatisfiable was interrupted, and
\* main has exited.
C3_Witness ==
    /\ pc = "exited"
    /\ status = "None"
    /\ SatModels(sudoku_cnf.cnf) = {}

\* C4: with a time limit of 0 and a puzzle with an empty cell, the run never
\* ends with a grid or with "no solution".
C4_ZeroLimitInterrupted ==
    (time_limit = 0 /\ text.ok /\ EmptyCells(text.grid) # {})
        => outcome \notin {"Grid", "None"}

\* C5: for a puzzle with consistent clues and exactly one valid completion,
\* the encoded formula is satisfiable, every satisfying assignment decodes to
\* that completion, and a solve the engine concludes returns it.
C5_Completeness ==
    /\ (Encoded /\ UniquePuzzle) =>
          LET ms == SatModels(sudoku_cnf.cnf)
          IN  /\ ms # {}
              /\ DecodedModels(ms) = Completions(text.grid)
    /\ (pc = "result" /\ status \in {"True", "False"}) =>
          \/ /\ outcome = "Grid"
             /\ ValidGrid(heap[solution])
             /\ Agrees(heap[solution], text.grid)
          \/ ~UniquePuzzle

\* The solve of a uniquely solvable puzzle, some empty cell of which had
\* several candidate values, has returned a grid.
C5_Witness ==
    /\ pc = "result"
    /\ outcome = "Grid"
    /\ UniquePuzzle
    /\ Cardinality(DOMAIN sudoku_cnf.propositions)
          > Cardinality(EmptyCells(text.grid))

\* C6: when solve_limited returns a result while the timer is still waiting,
\* no interrupt reaches the engine after that return.
C6_NoInterruptAfterReturn ==
    (status \in {"True", "False"} /\ timer_at_return = "waiting") => ~late

\* C7: a run that ends in one of the four outcomes exits with a status that
\* no run ending in another of them exits with.
C7_FourStatuses ==
    (pc = "exited" /\ outcome \in {"Grid", "None", "TimeoutError", "Malformed"})
        => \A o \in {"Grid", "None", "TimeoutError", "Malformed"} \ {outcome} :
                exit_code # ExitStatus(o)

\* C7, amended: the exit status is 0 for a solution, 2 for a timeout and 1
\* for an infeasible puzzle, an input or format error and a solver error.
C7_ThreeStatuses ==
    pc = "exited" =>
        /\ outcome = "Grid" => exit_code = 0
        /\ outcome = "TimeoutError" => exit_code = 2
        /\ outcome \in {"None", "Malformed", "Exception"} => exit_code = 1

\* A run on an infeasible puzzle has exited with the status of a format error.
C7_Witness ==
    /\ pc = "exited"
    /\ outcome = "None"
    /\ exit_code = ExitStatus("Malformed")

\* C8: the caller's grid keeps every cell's value through encode, decode and
\* run_algorithm; SudokuCNF.puzzle is that grid, and decode returns another.
C8_InputNeverMutated ==
    heap # <<>> =>
        /\ heap[1] = text.grid
        /\ sudoku_cnf.puzzle \in {0, 1}
        /\ solution # 1

\* decode has returned a grid that differs from the input.
C8_Witness ==
    /\ pc \in {"decoded", "result"}
    /\ solution # 0
    /\ heap[solution] # text.grid

\* C9: the proposition map's keys are exactly 1..k for the k generated
\* (cell, value) pairs, key i holds the proposition whose id is i, and no two
\* ids stand for the same (row, col, value).
C9_PropositionBijection ==
    Encoded =>
        LET P == sudoku_cnf.propositions
        IN  /\ DOMAIN P = 1 .. Cardinality(Candidates(text.grid))
            /\ \A i \in DOMAIN P : P[i].id = i
            /\ \A i, j \in DOMAIN P : Triple(P[i]) = Triple(P[j]) => i = j

\* A puzzle with several propositions for one cell, and propositions for
\* another cell after them, has been encoded.
C9_Witness ==
    /\ Encoded
    /\ \E i, j \in DOMAIN sudoku_cnf.propositions :
          /\ i + 1 < j
          /\ sudoku_cnf.propositions[i].coords
                = sudoku_cnf.propositions[i + 1].coords
          /\ sudoku_cnf.propositions[j].coords
                # sudoku_cnf.propositions[i].coords

\* C10: the propositions stand for exactly the pairs (empty cell, value not
\* pre-filled in the cell's row, column or block), and each carries the block
\* index of its cell.
C10_Pruning ==
    Encoded =>
        LET P == sudoku_cnf.propositions
        IN  /\ {Triple(P[i]) : i \in DOMAIN P} = Candidates(text.grid)
            /\ \A i \in DOMAIN P :
                  P[i].coords.block
                    = BlockOf(Len(text.grid), P[i].coords.row, P[i].coords.col)

\* A puzzle has been encoded in which a value is ruled out for an empty cell
\* by its block alone, and another value is kept for it.
C10_Witness ==
    /\ Encoded
    /\ \E x \in EmptyCells(text.grid) : \E v, w \in 1 .. Len(text.grid) :
          /\ v \notin row_used(text.grid, x[1])
          /\ v \notin col_used(text.grid, x[2])
          /\ ~Legal(text.grid, x[1], x[2], v)
          /\ \E i \in DOMAIN sudoku_cnf.propositions :
                Triple(sudoku_cnf.propositions[i]) = <<x[1], x[2], w>>

\* Some empty cell of g has no candidate value: its row, column and block
\* together hold all of 1..n.
ZeroCandidateCell(g) ==
    \E x \in EmptyCells(g) :
        \A v \in 1 .. Len(g) : ~Legal(g, x[1], x[2], v)

\* C11: for a puzzle in which some empty cell has no candidate value the
\* encoded formula has no satisfying assignment, and no grid returned by
\* run_algorithm still holds an empty (0) cell.
C11_ZeroCandidateUnsatisfiable ==
    /\ (Encoded /\ ZeroCandidateCell(text.grid))
            => SatModels(sudoku_cnf.cnf) = {}
    /\ (Ended /\ outcome = "Grid") => EmptyCells(heap[solution]) = {}

\* run_algorithm has left the solve in one of its four terminal outcomes:
\* Satisfied, Unsatisfiable, Interrupted or Failed.
Terminal == outcome \in {"Grid", "None", "TimeoutError", "Exception"}

\* C12: under fairness of the timer and of an engine that stops once
\* interrupted, every solve that was started ends in one of the four terminal
\* outcomes and keeps it; a solve the engine neither concludes nor fails ends
\* as TimeoutError.
C12_Termination ==
    /\ (pc = "solve") ~> (Ended /\ Terminal)
    /\ (pc = "solve") ~> \/ status \in {"True", "False"}
                         \/ outcome = "Exception"
                         \/ Ended /\ outcome = "TimeoutError"
    /\ [][Terminal => outcome' = outcome]_vars

\* The timer has fired on a running engine, which stopped, and run_algorithm
\* has raised TimeoutError.
C12_Witness ==
    /\ pc = "result"
    /\ outcome = "TimeoutError"
    /\ interrupted
    /\ timer = "done"
    /\ timer_at_return = "done"

\* C13: once run_algorithm has left the with block and the engine is
\* released, by a return, by TimeoutError or by an error of the solve call,
\* the timer has fired or has been cancelled: no call to solver.interrupt()
\* is still to come.
C13_NoPendingTimer ==
    solver = "deleted" => timer \in {"done", "cancelled"}

====
